---- MODULE Spec2Model ----
(***************************************************************************)
(* Model of the flag submission engine of ctf-flag-submitter               *)
(* (src/src/main.rs, src/src/database.rs).                                 *)
(*                                                                         *)
(* The state is the flags table of the store, the two shared id sets       *)
(* created once in main (sent_set, invalid_set), the position of the       *)
(* scheduler task inside main_loop/run/send_flags_with_throttle, and the   *)
(* position of every spawned submission task.  Time inside one call of     *)
(* send_flags_with_throttle is a discrete clock counted in interval        *)
(* periods (Duration::from_secs(1)) since the interval was created.        *)
(*                                                                         *)
(* flags_quota = 0 makes flags.chunks(0) panic and is not among the        *)
(* configurations drawn in Init.                                           *)
(***************************************************************************)
EXTENDS Integers, Sequences, FiniteSets, TLC

\* Bounds of the model.
MaxFlags == 2
MaxQuota == 2
MaxElapsed == 2

Ids == 1..MaxFlags

\* FlagStatus, written with the names its Display impl prints; "absent" is an
\* id that has no row in the flags table yet.
Unsent == "unsent"
Sent == "sent"
Invalid == "invalid"
Absent == "absent"

\* Period of the throttle interval, in clock units: Duration::from_secs(1).
THROTTLE_PERIOD == 1

\* tokio::time::interval(period): the first tick completes immediately, so the
\* deadline of the first tick is the creation time (elapsed = 0).
FIRST_TICK_AT == 0

VARIABLES
    db,           \* flags table: id -> status
    flags_quota,  \* config.flags_quota
    single_run,   \* config.single_run.unwrap_or(false)
    pc,           \* position of the scheduler task
    sent_set,     \* Arc<Mutex<HashSet<i64>>> created in main
    invalid_set,  \* Arc<Mutex<HashSet<i64>>> created in main
    flags,        \* the Vec returned by get_unsent_flags in this cycle
    next_flag,    \* number of flags of the snapshot already handed to spawn
    ticks,        \* number of interval.tick() calls completed by the batcher
    elapsed,      \* clock since the batcher created its interval
    tasks,        \* id -> position of the task spawned for that flag
    \* history of the current cycle, kept until the next one starts
    fetched,      \* "none" | "ok" | "err": result of the cycle's fetch
    res,          \* id -> the response its submission of this cycle got
    windows,      \* the windows released in this cycle, with release times
    calls,        \* the store writes made in this cycle's persistence step
    prev_failed,  \* ids of the sent set whose flush failed in the previous cycle
    locks         \* for each of the two mutexes, who holds its guard

vars == <<db, flags_quota, single_run, pc, sent_set, invalid_set, flags,
          next_flag, ticks, elapsed, tasks, fetched, res, windows, calls,
          prev_failed, locks>>

----------------------------------------------------------------------------
\* Responses of the endpoint.

MARKER == "invalid"

Bodies == { <<"accepted">>, <<"flag", "invalid">>, <<"garbage">> }

NoResponse == [transport |-> "none", status |-> 0, text_ok |-> FALSE, body |-> <<>>]

\* send_single_flag returned Err (connection error, timeout).
TransportError == [transport |-> "err", status |-> 0, text_ok |-> FALSE, body |-> <<>>]

HttpResponses ==
    { [transport |-> "ok", status |-> 500, text_ok |-> TRUE, body |-> <<"garbage">>],
      [transport |-> "ok", status |-> 200, text_ok |-> FALSE, body |-> <<>>] }
    \cup { [transport |-> "ok", status |-> 200, text_ok |-> TRUE, body |-> b] : b \in Bodies }

Responses == {TransportError} \cup HttpResponses

\* reqwest StatusCode::is_success: 200..=299
is_success(status) == status >= 200 /\ status < 300

\* str::contains on a body seen as a sequence of words
contains(body, marker) == \E i \in 1..Len(body) : body[i] = marker

\* check_response: true only for a success status whose body could be read and
\* does not contain "invalid"; false for everything else.
check_response(r) ==
    IF is_success(r.status)
    THEN IF r.text_ok THEN ~contains(r.body, MARKER) ELSE FALSE
    ELSE FALSE

----------------------------------------------------------------------------
\* The store.

UnsentIds(table) == { i \in Ids : table[i] = Unsent }

\* The ids of a set as a sequence in ascending order.
RECURSIVE Ascending(_)
Ascending(S) ==
    IF S = {} THEN <<>>
    ELSE LET m == CHOOSE x \in S : \A y \in S : x <= y
         IN  <<m>> \o Ascending(S \ {m})

\* SELECT id, flag, group_id, status FROM flags WHERE status = 0: the rows of
\* a scan of the table, in the order of the primary key.
SelectUnsent(table) == Ascending(UnsentIds(table))

\* Variant of Update: a row that already has the status is set back to Unsent.
UpdateToggle(table, ids, s) ==
    [ i \in Ids |-> IF i \in ids /\ table[i] # Absent
                    THEN (IF table[i] = s THEN Unsent ELSE s)
                    ELSE table[i] ]

\* UPDATE flags SET status = s WHERE id = ?, for every id of the set: the
\* statement has no condition on the current status.
Update(table, ids, s) ==
    [ i \in Ids |-> IF i \in ids /\ table[i] # Absent THEN s ELSE table[i] ]

\* The points where set_sent_flags / set_invalid_flags can end.
\*   begin_err:   self.db.transaction()? fails, before drain() is called
\*   execute_err: one transaction.execute(..)? fails inside the drain loop
\*   commit_err:  transaction.commit()? fails after the loop
\*   ok
WriteOutcomes(ids) ==
    {"begin_err", "commit_err", "ok"} \cup (IF ids = {} THEN {} ELSE {"execute_err"})

\* Variant of TableAfter: the updates executed before the failure stay.
TableAfterNoRollback(table, ids, s, outcome) ==
    IF outcome = "begin_err" THEN table ELSE Update(table, ids, s)

\* The table after the call: the updates are in one transaction, which is
\* rolled back when it is dropped without commit.
TableAfter(table, ids, s, outcome) ==
    IF outcome = "ok" THEN Update(table, ids, s) ELSE table

\* The caller's set after the call: drain() empties the set once called, also
\* when the Drain iterator is dropped early by `?`; when transaction() fails
\* drain() was never called and the set keeps its ids.
SetAfter(ids, outcome) ==
    IF outcome = "begin_err" THEN ids ELSE {}

----------------------------------------------------------------------------
\* The batcher.

Min(a, b) == IF a < b THEN a ELSE b

\* Variant of Chunk: a chunk starts with the last flag of the one before it.
ChunkOverlapping(fl, done, quota) ==
    SubSeq(fl, IF done = 0 THEN 1 ELSE done, Min(done + quota, Len(fl)))

\* flags.chunks(quota): the chunk that starts after `done` flags
Chunk(fl, done, quota) == SubSeq(fl, done + 1, Min(done + quota, Len(fl)))

\* Variant of ChunksLeft: the loop body runs once for an empty slice.
ChunksLeftOrFirst(fl, done) == done < Len(fl) \/ Len(fl) = 0

\* `for chunk in flags.chunks(quota)`: the iterator has another chunk while
\* some flag of the slice has not been yielded; an empty slice yields none.
ChunksLeft(fl, done) == done < Len(fl)

\* Variant of TickDeadline: the first tick is due one period after creation.
TickDeadlineAfterPeriod(n) == (n + 1) * THROTTLE_PERIOD

\* Deadline of the n-th tick (n = 0 is the first): every tick is due one
\* period after the deadline of the one before, whenever that one was taken.
TickDeadline(n) == FIRST_TICK_AT + n * THROTTLE_PERIOD

Range(s) == { s[i] : i \in 1..Len(s) }

\* Variant of JoinedAll: run goes on without awaiting the handles.
JoinedNone(t) == TRUE

\* for join in joins { join.await }: run goes on when every task has ended
JoinedAll(t) == \A i \in Ids : t[i] \in {"none", "done"}

----------------------------------------------------------------------------
\* The holder of a guard that is the scheduler task (run); a submission task
\* is named by the id of its flag.
Scheduler == 0

\* Both mutexes free.
NoHolder == [sent |-> {}, invalid |-> {}]

\* Variant of CanLock: lock() returns a guard whoever holds the mutex.
CanLockAlways(holders) == TRUE

\* Mutex::lock() returns its guard only while no guard of the mutex is alive.
CanLock(holders) == holders = {}

Init ==
    /\ db = [i \in Ids |-> Absent]
    /\ flags_quota \in 1..MaxQuota
    /\ single_run \in BOOLEAN
    /\ pc = "Idle"
    /\ sent_set = {}
    /\ invalid_set = {}
    /\ flags = <<>>
    /\ next_flag = 0
    /\ ticks = 0
    /\ elapsed = 0
    /\ tasks = [i \in Ids |-> "none"]
    /\ fetched = "none"
    /\ res = [i \in Ids |-> NoResponse]
    /\ windows = <<>>
    /\ calls = <<>>
    /\ prev_failed = {}
    /\ locks = NoHolder

config_vars == <<flags_quota, single_run>>
batch_vars == <<flags, next_flag, ticks, elapsed, windows>>
hist_vars == <<fetched, res, calls, prev_failed>>

\* The harvesting process records a new flag: status defaults to 0 (Unsent).
\* The engine reads the table only in get_unsent_flags, so an insertion is
\* either seen by the next fetch (made before it) or made after the snapshot
\* was taken (during the dispatch).
Harvest(i) ==
    /\ pc \in {"Fetching", "Dispatching"}
    /\ db[i] = Absent
    /\ db' = [db EXCEPT ![i] = Unsent]
    /\ UNCHANGED <<locks, config_vars, pc, sent_set, invalid_set, batch_vars, tasks, hist_vars>>

\* The ids of the sent set whose flush failed in the cycle that just ended.
FailedSentFlush ==
    IF Len(calls) >= 1 /\ ~calls[1].ok THEN calls[1].ids ELSE {}

\* run is entered: from main_loop after interval.tick(), or once from main in
\* single-run mode.
StartCycle ==
    /\ pc = "Idle"
    /\ pc' = "Fetching"
    /\ fetched' = "none"
    /\ res' = [i \in Ids |-> NoResponse]
    /\ calls' = <<>>
    /\ prev_failed' = FailedSentFlush
    /\ flags' = <<>>
    /\ next_flag' = 0
    /\ ticks' = 0
    /\ elapsed' = 0
    /\ windows' = <<>>
    /\ UNCHANGED <<locks, db, config_vars, sent_set, invalid_set, tasks>>

\* db.get_unsent_flags() returned Ok(flags); send_flags_with_throttle creates
\* its interval.
FetchOk ==
    /\ pc = "Fetching"
    /\ flags' = SelectUnsent(db)
    /\ fetched' = "ok"
    /\ pc' = "Dispatching"
    /\ UNCHANGED <<locks, db, config_vars, sent_set, invalid_set, next_flag, ticks,
                   elapsed, windows, tasks, res, calls, prev_failed>>

\* db.get_unsent_flags() returned Err: logged, run goes on to the writes.
FetchErr ==
    /\ pc = "Fetching"
    /\ fetched' = "err"
    /\ pc' = "PersistSent"
    /\ UNCHANGED <<locks, db, config_vars, sent_set, invalid_set, batch_vars, tasks,
                   res, calls, prev_failed>>

\* db.get_unsent_flags() panicked: a row that cannot be stepped to or read is
\* unwrapped (`.map(|x| x.unwrap())`, `row.get(..)`). The panic unwinds run,
\* main_loop and main: the process is gone, nothing else is touched.
FetchPanic ==
    /\ pc = "Fetching"
    /\ pc' = "Panicked"
    /\ UNCHANGED <<locks, db, config_vars, sent_set, invalid_set, batch_vars, tasks,
                   hist_vars>>

\* Time passes while the batcher still has a chunk to release.
Tick ==
    /\ pc = "Dispatching"
    /\ ChunksLeft(flags, next_flag)
    /\ elapsed < MaxElapsed
    /\ elapsed' = elapsed + 1
    /\ UNCHANGED <<locks, db, config_vars, pc, sent_set, invalid_set, flags, next_flag,
                   ticks, windows, tasks, hist_vars>>

\* One iteration of `for chunk in flags.chunks(quota)`: interval.tick().await
\* completes once its deadline has passed, then one task is spawned per flag
\* of the chunk.
ReleaseWindow ==
    /\ pc = "Dispatching"
    /\ ChunksLeft(flags, next_flag)
    /\ elapsed >= TickDeadline(ticks)
    /\ LET chunk == Chunk(flags, next_flag, flags_quota)
       IN  /\ tasks' = [i \in Ids |-> IF i \in Range(chunk) THEN "sending" ELSE tasks[i]]
           /\ next_flag' = next_flag + Len(chunk)
           /\ windows' = Append(windows, [ids |-> chunk, at |-> elapsed, due |-> TickDeadline(ticks)])
    /\ ticks' = ticks + 1
    /\ UNCHANGED <<locks, db, config_vars, pc, sent_set, invalid_set, flags, elapsed, hist_vars>>

\* The chunks are exhausted: send_flags_with_throttle returns the handles.
DispatchDone ==
    /\ pc = "Dispatching"
    /\ ~ChunksLeft(flags, next_flag)
    /\ pc' = "Barrier"
    /\ UNCHANGED <<locks, db, config_vars, sent_set, invalid_set, batch_vars, tasks, hist_vars>>

\* The task spawned for flag i runs to its end: send_single_flag returns, and
\* for Ok(res) check_response decides which set gets flag.id; the insertion
\* is made under the set's mutex, which is held for that statement only.
TaskFinish(i) ==
    /\ tasks[i] = "sending"
    /\ \E r \in Responses :
        /\ res' = [res EXCEPT ![i] = r]
        /\ sent_set' = IF r.transport = "ok" /\ check_response(r)
                       THEN sent_set \cup {i} ELSE sent_set
        /\ invalid_set' = IF r.transport = "ok" /\ ~check_response(r)
                          THEN invalid_set \cup {i} ELSE invalid_set
    /\ tasks' = [tasks EXCEPT ![i] = "done"]
    /\ UNCHANGED <<locks, db, config_vars, pc, batch_vars, fetched, calls, prev_failed>>

\* Every handle has been awaited; the handles of the ended tasks are dropped.
Join ==
    /\ pc = "Barrier"
    /\ JoinedAll(tasks)
    /\ pc' = "PersistSent"
    /\ tasks' = [i \in Ids |-> IF tasks[i] = "done" THEN "none" ELSE tasks[i]]
    /\ UNCHANGED <<locks, db, config_vars, sent_set, invalid_set, batch_vars, hist_vars>>

\* Variant of AfterSetSent: run returns when set_sent_flags fails.
AfterSetSentReturnsOnErr(ok) ==
    IF ok THEN "PersistInvalid" ELSE (IF single_run THEN "Stopped" ELSE "Idle")

\* Where run goes after set_sent_flags: `if let Err(err) = ..` only logs, so
\* the next statement is the lock of invalid_set and set_invalid_flags.
AfterSetSent(ok) == "PersistInvalid"

\* sent_set.lock().unwrap(); db.set_sent_flags(&mut sent_set); an Err is
\* logged. The guard lives until run returns.
PersistSent ==
    /\ pc = "PersistSent"
    /\ CanLock(locks.sent)
    /\ locks' = [locks EXCEPT !.sent = @ \cup {Scheduler}]
    /\ \E o \in WriteOutcomes(sent_set) :
        /\ db' = TableAfter(db, sent_set, Sent, o)
        /\ sent_set' = SetAfter(sent_set, o)
        /\ calls' = Append(calls, [fn |-> "set_sent_flags", ids |-> sent_set, ok |-> (o = "ok")])
        /\ pc' = AfterSetSent(o = "ok")
    /\ UNCHANGED <<config_vars, invalid_set, batch_vars, tasks, fetched, res,
                   prev_failed>>

\* Variant of AfterRun: run is called from the loop in both modes.
AfterRunAlwaysLoops(single) == "Idle"

\* Where main goes when run returns: main_loop waits for the next tick of its
\* interval; in single-run mode main returns and the process exits.
AfterRun(single) == IF single THEN "Stopped" ELSE "Idle"

\* invalid_set.lock().unwrap(); db.set_invalid_flags(&mut invalid_set); an
\* Err is logged; run returns and both guards are dropped.
PersistInvalid ==
    /\ pc = "PersistInvalid"
    /\ CanLock(locks.invalid)
    /\ locks' = [locks EXCEPT !.sent = @ \ {Scheduler}]
    /\ \E o \in WriteOutcomes(invalid_set) :
        /\ db' = TableAfter(db, invalid_set, Invalid, o)
        /\ invalid_set' = SetAfter(invalid_set, o)
        /\ calls' = Append(calls, [fn |-> "set_invalid_flags", ids |-> invalid_set, ok |-> (o = "ok")])
    /\ pc' = AfterRun(single_run)
    /\ UNCHANGED <<config_vars, sent_set, batch_vars, tasks, fetched, res, prev_failed>>

Next ==
    \/ \E i \in Ids : Harvest(i)
    \/ StartCycle
    \/ FetchOk
    \/ FetchErr
    \/ FetchPanic
    \/ Tick
    \/ ReleaseWindow
    \/ DispatchDone
    \/ \E i \in Ids : TaskFinish(i)
    \/ Join
    \/ PersistSent
    \/ PersistInvalid

Spec == Init /\ [][Next]_vars

\* The steps of the engine itself: everything but the harvester's inserts.
\* The runtime polls the main task and every spawned task, the timers fire
\* and every outbound request returns, so each of these steps is taken once
\* it stays enabled.
FairSpec ==
    /\ Spec
    /\ WF_vars(StartCycle)
    /\ WF_vars(FetchOk \/ FetchErr \/ FetchPanic)
    /\ WF_vars(Tick)
    /\ WF_vars(ReleaseWindow)
    /\ WF_vars(DispatchDone)
    /\ \A i \in Ids : WF_vars(TaskFinish(i))
    /\ WF_vars(Join)
    /\ WF_vars(PersistSent)
    /\ WF_vars(PersistInvalid)

----------------------------------------------------------------------------
\* set_sent_flags on its own: any table, any set of ids, called twice.

\* Every table of the store and every id set a caller can pass, with the
\* scheduler about to call set_sent_flags.
InitWrite ==
    /\ db \in [Ids -> {Absent, Unsent, Sent, Invalid}]
    /\ sent_set \in SUBSET Ids
    /\ pc = "PersistSent"
    /\ flags_quota = 1
    /\ single_run = TRUE
    /\ invalid_set = {}
    /\ flags = <<>>
    /\ next_flag = 0
    /\ ticks = 0
    /\ elapsed = 0
    /\ tasks = [i \in Ids |-> "none"]
    /\ fetched = "none"
    /\ res = [i \in Ids |-> NoResponse]
    /\ windows = <<>>
    /\ calls = <<>>
    /\ prev_failed = {}
    /\ locks = NoHolder

\* set_sent_flags called once more with a set that holds the ids of the
\* first call (the first call has drained the caller's own set).
SetSentFlagsAgain ==
    /\ pc = "PersistInvalid"
    /\ Len(calls) = 1
    /\ \E o \in WriteOutcomes(calls[1].ids) :
        /\ db' = TableAfter(db, calls[1].ids, Sent, o)
        /\ calls' = Append(calls, [fn |-> "set_sent_flags", ids |-> calls[1].ids, ok |-> (o = "ok")])
    /\ pc' = "Stopped"
    /\ UNCHANGED <<locks, config_vars, sent_set, invalid_set, batch_vars, tasks,
                   fetched, res, prev_failed>>

NextWrite ==
    \/ PersistSent
    \/ SetSentFlagsAgain

SpecWrite == InitWrite /\ [][NextWrite]_vars

----------------------------------------------------------------------------
\* The submission task step by step: the request, the lock, the insertion.

\* The mutex a task goes for after its response: check_response true takes
\* the branch that locks sent_set, false the one that locks invalid_set.
MutexFor(r) == IF check_response(r) THEN "sent" ELSE "invalid"

\* send_single_flag(..).await and, for Ok(res), check_response(res).await
\* have returned; on Err the task logs and ends.
TaskRespond(i) ==
    /\ tasks[i] = "sending"
    /\ \E r \in Responses :
        /\ res' = [res EXCEPT ![i] = r]
        /\ tasks' = [tasks EXCEPT ![i] = IF r.transport = "ok" THEN "locking" ELSE "done"]
    /\ UNCHANGED <<locks, db, config_vars, pc, sent_set, invalid_set, batch_vars,
                   fetched, calls, prev_failed>>

\* let mut hash_set = sent_set.lock().unwrap(); (or invalid_set)
TaskLock(i) ==
    /\ tasks[i] = "locking"
    /\ CanLock(locks[MutexFor(res[i])])
    /\ locks' = [locks EXCEPT ![MutexFor(res[i])] = @ \cup {i}]
    /\ tasks' = [tasks EXCEPT ![i] = "inserting"]
    /\ UNCHANGED <<db, config_vars, pc, sent_set, invalid_set, batch_vars,
                   hist_vars>>

\* hash_set.insert(flag.id); the guard is dropped at the end of the block and
\* the task ends.
TaskInsert(i) ==
    /\ tasks[i] = "inserting"
    /\ sent_set' = IF MutexFor(res[i]) = "sent" THEN sent_set \cup {i} ELSE sent_set
    /\ invalid_set' = IF MutexFor(res[i]) = "invalid" THEN invalid_set \cup {i} ELSE invalid_set
    /\ locks' = [locks EXCEPT ![MutexFor(res[i])] = @ \ {i}]
    /\ tasks' = [tasks EXCEPT ![i] = "done"]
    /\ UNCHANGED <<db, config_vars, pc, batch_vars, hist_vars>>

NextLock ==
    \/ \E i \in Ids : Harvest(i)
    \/ StartCycle
    \/ FetchOk
    \/ FetchErr
    \/ FetchPanic
    \/ Tick
    \/ ReleaseWindow
    \/ DispatchDone
    \/ \E i \in Ids : TaskRespond(i)
    \/ \E i \in Ids : TaskLock(i)
    \/ \E i \in Ids : TaskInsert(i)
    \/ Join
    \/ PersistSent
    \/ PersistInvalid

\* The interleavings of the tasks of a cycle are those of the one cycle of a
\* single run: the engine starts as in Init, with config.single_run set.
InitLock == Init /\ single_run

SpecLock == InitLock /\ [][NextLock]_vars

----------------------------------------------------------------------------
\* Vocabulary of the properties.

\* A cycle has run to its end and its history is still in place.
CycleOver == pc \in {"Idle", "Stopped"} /\ fetched # "none"

\* The status the engine's own classification gives a flag for a response:
\* Err(_) leaves it alone, check_response true sends it to the sent set,
\* false to the invalid set.
Classified(r) ==
    IF r.transport = "err" THEN Unsent
    ELSE IF check_response(r) THEN Sent ELSE Invalid

Ceil(n, q) == (n + q - 1) \div q

Submitted(i) == res[i] # NoResponse

----------------------------------------------------------------------------
\* C1: no write of the engine changes the status of a flag whose stored
\* status is already Sent or Invalid; the only transitions are
\* Unsent -> Sent and Unsent -> Invalid.
C1_TerminalStatusIsFinal ==
    [][\A i \in Ids :
          /\ (db[i] \in {Sent, Invalid} => db'[i] = db[i])
          /\ (db[i] = Unsent => db'[i] \in {Unsent, Sent, Invalid})]_vars

\* C2: when run begins the persistence step, no id is in both the sent set
\* and the invalid set.
C2_SetsDisjointAtPersist ==
    pc = "PersistSent" => sent_set \cap invalid_set = {}

\* C3: a flag whose submission got a non-success HTTP status is in neither
\* set, and is still Unsent when the cycle is over.
C3_NonSuccessIsUndetermined ==
    \A i \in Ids :
        (res[i].transport = "ok" /\ ~is_success(res[i].status)) =>
            /\ i \notin sent_set
            /\ i \notin invalid_set
            /\ (CycleOver => db[i] = Unsent)

\* C4: the ids of a sent set whose flush failed are still Unsent after that
\* cycle; the next cycle, when its fetch succeeds, fetches and submits each
\* of them, and after it the status of each is the one its new submission
\* gives it (or still Unsent when that cycle's write did not go through).
C4_FailedFlushIsResubmitted ==
    /\ CycleOver => \A i \in FailedSentFlush : db[i] = Unsent
    /\ \A i \in prev_failed :
          /\ (fetched = "ok" => i \in Range(flags))
          /\ (fetched = "ok" /\ pc \in {"Barrier", "PersistSent", "PersistInvalid", "Idle", "Stopped"}
                => (tasks[i] = "sending" \/ Submitted(i)))
          /\ (CycleOver /\ fetched = "ok" => db[i] \in {Unsent, Classified(res[i])})
          /\ (CycleOver /\ fetched = "ok" /\ calls[1].ok /\ calls[2].ok
                => db[i] = Classified(res[i]))

\* C5: the persistence step leaves both sets empty, and at the start of a
\* cycle's fetch neither set holds an id of an earlier cycle.
C5_SetsEmptyAfterPersist ==
    (CycleOver \/ pc = "Fetching") => (sent_set = {} /\ invalid_set = {})

\* C6: in a cycle whose fetch failed nothing is dispatched, no stored status
\* changes, and the scheduler goes back to Idle (Stopped in single-run mode).
C6_FetchFailureTouchesNothing ==
    [][fetched = "err" =>
          /\ db' = db
          /\ windows' = <<>>
          /\ \A i \in Ids : tasks'[i] # "sending" /\ ~Submitted(i)'
          /\ (pc = "PersistInvalid" => pc' \in {"Idle", "Stopped"})]_vars

\* C7: a submission task is in flight only while its own cycle is
\* dispatching or waiting at the barrier: it was spawned from a window of the
\* current cycle, and no write of the persistence step of that cycle has been
\* made yet; so every task of a cycle has ended before the cycle's writes, and
\* the writes are made before the next fetch.
C7_BarrierBeforePersist ==
    /\ \A i \in Ids :
          tasks[i] = "sending" =>
              /\ pc \in {"Dispatching", "Barrier"}
              /\ calls = <<>>
              /\ \E k \in 1..Len(windows) : i \in Range(windows[k].ids)
    /\ pc \in {"PersistSent", "PersistInvalid"} /\ fetched = "ok" =>
          \A i \in Range(flags) : Submitted(i)
    /\ pc = "PersistInvalid" => Len(calls) = 1
    /\ CycleOver => Len(calls) = 2

\* C7 witness: the persistence step starts after two tasks of the cycle have
\* ended, one with a transport error and one accepted.
C7_Witness ==
    /\ pc = "PersistSent"
    /\ Len(flags) = 2
    /\ \E i, j \in Range(flags) :
          /\ res[i] = TransportError
          /\ res[j].transport = "ok" /\ check_response(res[j])

\* C8: every window has at most flags_quota flags, window k+1 is released no
\* earlier than one period after window k, and window k no earlier than
\* (k-1) periods after the batcher started.
C8_WindowsThrottled ==
    \A k \in 1..Len(windows) :
        /\ Len(windows[k].ids) <= flags_quota
        /\ windows[k].at >= (k - 1) * THROTTLE_PERIOD
        /\ (k > 1 => windows[k].at >= windows[k - 1].at + THROTTLE_PERIOD)

\* C9 as stated: the first window is released only after one full period, and
\* dispatching N > 0 flags takes ceil(N/Q) periods.
C9_FirstWindowAfterOnePeriod ==
    /\ Len(windows) >= 1 => windows[1].at >= THROTTLE_PERIOD
    /\ pc = "Barrier" /\ Len(flags) > 0 =>
          elapsed >= Ceil(Len(flags), flags_quota) * THROTTLE_PERIOD

\* C9 amended: the tick of the first window is due when the batcher starts
\* and the tick of window k is due (k-1) periods later; no window is released
\* before its tick is due, so dispatching N > 0 flags completes ceil(N/Q)
\* ticks and takes at least ceil(N/Q) - 1 periods.
C9_FirstWindowDueAtStart ==
    /\ \A k \in 1..Len(windows) :
          /\ windows[k].due = (k - 1) * THROTTLE_PERIOD
          /\ windows[k].at >= windows[k].due
    /\ pc = "Barrier" /\ Len(flags) > 0 =>
          /\ ticks = Ceil(Len(flags), flags_quota)
          /\ Len(windows) = ticks
          /\ elapsed >= (ticks - 1) * THROTTLE_PERIOD

\* C9 witness: two windows were dispatched, the first at the start of the
\* batcher, and the whole dispatch took one period.
C9_Witness ==
    /\ pc = "Barrier"
    /\ Len(windows) = 2
    /\ windows[1].at = 0
    /\ elapsed = THROTTLE_PERIOD

\* What a cycle whose fetch returned no flag does before its writes: no
\* window, no tick, no submission.
NothingDispatched ==
    /\ windows = <<>>
    /\ ticks = 0
    /\ \A i \in Ids : tasks[i] # "sending" /\ ~Submitted(i)

\* C10 as stated: a cycle whose fetch returned no flag releases no window,
\* awaits no tick, spawns no submission and makes no write call to the store.
C10_EmptyFetchNoPersistenceCalls ==
    fetched = "ok" /\ Len(flags) = 0 => NothingDispatched /\ calls = <<>>

\* C10 amended: such a cycle releases no window, awaits no tick and spawns no
\* submission, and still calls set_sent_flags and then set_invalid_flags, once
\* each.
C10_EmptyFetchStillPersists ==
    fetched = "ok" /\ Len(flags) = 0 =>
        /\ NothingDispatched
        /\ (pc = "PersistInvalid" =>
                Len(calls) = 1 /\ calls[1].fn = "set_sent_flags")
        /\ (CycleOver =>
                /\ Len(calls) = 2
                /\ calls[1].fn = "set_sent_flags"
                /\ calls[2].fn = "set_invalid_flags")

\* C10 witness: a cycle that fetched no flag is over and both calls were made.
C10_Witness ==
    /\ CycleOver
    /\ fetched = "ok"
    /\ Len(flags) = 0
    /\ Len(calls) = 2

\* C11: a flag whose submission failed in the transport (send_single_flag
\* returned Err) is in neither set, is still Unsent when the cycle is over,
\* and is fetched and submitted again by the next cycle whose fetch succeeds.
C11_TransportErrorStaysUnsent ==
    \A i \in Ids :
        res[i] = TransportError =>
            /\ i \notin sent_set
            /\ i \notin invalid_set
            /\ (CycleOver => db[i] = Unsent)

\* C12: after a cycle whose fetch and both writes succeeded, every fetched
\* flag answered with a success status and a body without the marker is
\* Sent, every one answered with a success status and a body with the marker
\* is Invalid, and the windows are the consecutive chunks of the snapshot.
C12_CycleOutcome ==
    (CycleOver /\ fetched = "ok" /\ calls[1].ok /\ calls[2].ok) =>
        /\ \A i \in Range(flags) :
              (res[i].transport = "ok" /\ is_success(res[i].status) /\ res[i].text_ok) =>
                  db[i] = (IF contains(res[i].body, MARKER) THEN Invalid ELSE Sent)
        /\ \A k \in 1..Len(windows) :
              windows[k].ids = Chunk(flags, (k - 1) * flags_quota, flags_quota)
        /\ Len(windows) = Ceil(Len(flags), flags_quota)

\* C13: a flag answered with a success status and a body that is neither the
\* acceptance nor a rejection, or that cannot be read, is not in the sent set
\* and is not stored as Sent when the cycle is over.
C13_UnexpectedBodyNeverSent ==
    \A i \in Ids :
        (/\ res[i].transport = "ok"
         /\ is_success(res[i].status)
         /\ (~res[i].text_ok \/ res[i].body = <<"garbage">>)) =>
            /\ i \notin sent_set
            /\ (CycleOver => db[i] # Sent)

\* The call that the step from pc to pc' has just appended to calls.
LastCall == calls[Len(calls)]

\* C14: set_sent_flags and set_invalid_flags are all-or-nothing: a call that
\* fails (opening the transaction, at an update, at the commit) leaves the
\* table as it was, and a call that succeeds leaves every id of the call with
\* the new status and every other row as it was.
C14_WritesAllOrNothing ==
    [][(pc \in {"PersistSent", "PersistInvalid"} /\ pc' # pc) =>
         LET c == calls'[Len(calls')]
             s == IF pc = "PersistSent" THEN Sent ELSE Invalid
         IN  IF c.ok
             THEN \A i \in Ids : db'[i] = (IF i \in c.ids THEN s ELSE db[i])
             ELSE db' = db]_vars

\* A failed set_sent_flags of two ids has left both Unsent.
C14_Witness ==
    /\ pc = "PersistInvalid"
    /\ ~LastCall.ok
    /\ Cardinality(LastCall.ids) = 2
    /\ \A i \in LastCall.ids : db[i] = Unsent

\* C15: in continuous mode nothing stops the scheduler: a cycle that has
\* started comes back to Idle whatever failed in it, from Idle the next cycle
\* starts, and a submission in flight completes and records its outcome
\* whatever happens to its siblings.
C15_SchedulerNeverStops ==
    /\ (~single_run /\ pc = "Fetching") ~> (pc = "Idle")
    /\ (~single_run /\ pc = "Idle") ~> (pc = "Fetching")
    /\ \A i \in Ids : (tasks[i] = "sending") ~> (tasks[i] = "done")

\* C16: in single-run mode the engine runs one cycle and no more, the process
\* is gone (Stopped, or Panicked in the fetch) with no submission in flight,
\* and it is Stopped only after both writes of the cycle, which were handed
\* every id that a submission of the cycle recorded.
C16_SingleRunStopsAfterPersist ==
    single_run =>
        /\ pc = "Idle" => (fetched = "none" /\ calls = <<>>)
        /\ pc \in {"Stopped", "Panicked"} => \A i \in Ids : tasks[i] # "sending"
        /\ pc = "Panicked" => (sent_set = {} /\ invalid_set = {})
        /\ pc = "Stopped" =>
              /\ Len(calls) = 2
              /\ calls[1].fn = "set_sent_flags"
              /\ calls[2].fn = "set_invalid_flags"
              /\ \A i \in Range(flags) :
                    /\ Submitted(i)
                    /\ Classified(res[i]) = Sent => i \in calls[1].ids
                    /\ Classified(res[i]) = Invalid => i \in calls[2].ids

\* A single run has stopped after two submissions, one recorded in each set.
C16_Witness ==
    /\ single_run
    /\ pc = "Stopped"
    /\ \E i, j \in Range(flags) :
          Classified(res[i]) = Sent /\ Classified(res[j]) = Invalid

\* C17: set_sent_flags is idempotent on the statuses: for every table and
\* every id set, a second successful call with the same ids leaves every
\* status as the first successful call left it.
C17_SetSentIdempotent ==
    [][(/\ Len(calls) = 1
        /\ Len(calls') = 2
        /\ calls[1].ok
        /\ calls'[2].ok) => db' = db]_vars

\* Two successful calls with the same two ids have been made: both are Sent.
C17_Witness ==
    /\ Len(calls) = 2
    /\ calls[1].fn = "set_sent_flags" /\ calls[1].ok
    /\ calls[2].fn = "set_sent_flags" /\ calls[2].ok
    /\ calls[2].ids = calls[1].ids
    /\ Cardinality(calls[1].ids) = 2
    /\ \A i \in calls[1].ids : db[i] = Sent

\* The number of flags in the first k windows.
RECURSIVE WindowSizes(_)
WindowSizes(k) == IF k = 0 THEN 0 ELSE Len(windows[k].ids) + WindowSizes(k - 1)

\* The windows in which flag i was released.
WindowsOf(i) == { k \in 1..Len(windows) : i \in Range(windows[k].ids) }

\* C18: a cycle works on the snapshot of its fetch: the windows released so
\* far hold the first next_flag flags of the snapshot, each in one window;
\* once dispatch is over every flag of the snapshot is in exactly one window
\* and the window sizes sum to the snapshot size; only flags of the snapshot
\* have a task or a response, so a flag that became Unsent during dispatch is
\* not submitted in this cycle.
C18_CycleWorksOnSnapshot ==
    /\ WindowSizes(Len(windows)) = next_flag
    /\ \A i \in Ids : Cardinality(WindowsOf(i)) <= 1
    /\ \A k \in 1..Len(windows) :
          \A n \in 1..Len(windows[k].ids) :
              windows[k].ids[n] = flags[WindowSizes(k - 1) + n]
    /\ (fetched = "ok" /\ pc \notin {"Fetching", "Dispatching"}) =>
          /\ WindowSizes(Len(windows)) = Len(flags)
          /\ \A i \in Range(flags) : Cardinality(WindowsOf(i)) = 1
    /\ \A i \in Ids :
          (tasks[i] # "none" \/ Submitted(i)) =>
              (i \in Range(flags) /\ WindowsOf(i) # {})
    /\ CycleOver => \A i \in Range(flags) : Submitted(i)

\* Dispatch is over, the snapshot's flag has been submitted, and a flag that
\* became Unsent after the fetch has neither a window nor a task.
C18_Witness ==
    /\ pc = "Barrier"
    /\ Len(flags) = 1
    /\ \A i \in Range(flags) : Submitted(i)
    /\ \E j \in Ids :
          j \notin Range(flags) /\ db[j] = Unsent /\ tasks[j] = "none" /\ ~Submitted(j)

\* The flags of the snapshot that this cycle's submissions put in the
\* invalid set.
RejectedInCycle == { i \in Range(flags) : Classified(res[i]) = Invalid }

\* C20: a failure of set_sent_flags neither skips nor alters the invalid
\* flush: the failing call leaves the invalid set as it was and is followed
\* in the same cycle by set_invalid_flags, which is handed every flag rejected
\* in the cycle and, when it succeeds, leaves each of them Invalid.
C20_InvalidFlushAfterFailedSentFlush ==
    /\ [][(pc = "PersistSent" /\ pc' # pc /\ ~calls'[Len(calls')].ok) =>
            (pc' = "PersistInvalid" /\ invalid_set' = invalid_set)]_vars
    /\ []((CycleOver /\ ~calls[1].ok) =>
            /\ Len(calls) = 2
            /\ calls[2].fn = "set_invalid_flags"
            /\ RejectedInCycle \subseteq calls[2].ids
            /\ calls[2].ok => \A i \in RejectedInCycle : db[i] = Invalid)

\* A cycle is over in which set_sent_flags failed on a non-empty set and a
\* rejected flag is stored Invalid.
C20_Witness ==
    /\ CycleOver
    /\ ~calls[1].ok
    /\ calls[1].ids # {}
    /\ calls[2].ok
    /\ \E i \in RejectedInCycle : db[i] = Invalid

\* The submission tasks that hold the guard of one of the two mutexes.
TaskHolders(m) == locks[m] \ {Scheduler}

\* C19: under every interleaving of the tasks, each mutex has at most one
\* holder; a task whose request is in flight, or that has not got its lock
\* yet, holds no guard; and no insertion is lost: a task that has inserted
\* has its id in its set as long as the cycle has not reached the writes, so
\* at the barrier and when the sent set is handed to set_sent_flags each set
\* holds the id of every task that went for it.
C19_InsertionsExclusiveNoneLost ==
    /\ Cardinality(locks.sent) <= 1
    /\ Cardinality(locks.invalid) <= 1
    /\ \A i \in Ids :
          tasks[i] \in {"sending", "locking"} =>
              (i \notin locks.sent /\ i \notin locks.invalid)
    /\ \A i \in TaskHolders("sent") \cup TaskHolders("invalid") :
          tasks[i] = "inserting"
    /\ pc \in {"Dispatching", "Barrier", "PersistSent"} =>
          \A i \in Ids :
              (tasks[i] \in {"done", "none"} /\ res[i].transport = "ok") =>
                  /\ MutexFor(res[i]) = "sent" => i \in sent_set
                  /\ MutexFor(res[i]) = "invalid" => i \in invalid_set

\* One task holds the guard of the sent set and is about to insert while the
\* other, which goes for the same set, waits for the lock.
C19_Witness ==
    \E i, j \in Ids :
        /\ tasks[i] = "inserting" /\ i \in locks.sent
        /\ tasks[j] = "locking" /\ MutexFor(res[j]) = "sent"

====
